---- MODULE Spec2Model ----
(***************************************************************************)
(* pybids: the BIDS path validator (bids/layout/bids_validator.py) and the *)
(* Threshold transformation (bids/analysis/transformations/compute.py).    *)
(*                                                                         *)
(* Paths are TLA+ strings.  The patterns of the validator are kept as      *)
(* syntax trees and matched by a backtracking matcher that follows the     *)
(* priority order of Python's re module (greedy quantifiers, leftmost      *)
(* alternative first, back-references, "." excluding the line feed, "$"    *)
(* also matching before a final line feed).                                *)
(***************************************************************************)
EXTENDS Integers, Sequences, FiniteSets, TLC

VARIABLES index_associated, path, pc, flags, ret,
          data, threshold, binarize, above, signed, out

vars == <<index_associated, path, pc, flags, ret,
          data, threshold, binarize, above, signed, out>>

validatorVars == <<index_associated, path, flags, ret>>
thresholdVars == <<data, threshold, binarize, above, signed, out>>

(***************************************************************************)
(* Characters and character classes of the patterns.                       *)
(***************************************************************************)
Lower == {"a","b","c","d","e","f","g","h","i","j","k","l","m",
          "n","o","p","q","r","s","t","u","v","w","x","y","z"}
Upper == {"A","B","C","D","E","F","G","H","I","J","K","L","M",
          "N","O","P","Q","R","S","T","U","V","W","X","Y","Z"}
Digit == {"0","1","2","3","4","5","6","7","8","9"}
\* [a-zA-Z0-9]
AlNum == Lower \cup Upper \cup Digit

CharAt(s, i) == SubSeq(s, i, i)

(***************************************************************************)
(* Pattern syntax.  A pattern is a sequence of nodes.                      *)
(*   Lit(p)     the characters of p in a row; a "." in p is the regex dot  *)
(*              (no dot of the source's patterns is escaped)               *)
(*   Plus(C)    [C]+   greedy                                              *)
(*   DotStar    .*     greedy                                              *)
(*   Opt(k)     (?:k)? greedy                                              *)
(*   Grp(n, k)  capturing group number n                                   *)
(*   Ref(n)     back-reference \n                                          *)
(*   Alt(ks)    k1|k2|...                                                  *)
(*   Bol, Eol   ^ and $                                                    *)
(***************************************************************************)
Lit(p) == [t |-> "lit", p |-> p]
Plus(C) == [t |-> "plus", c |-> C]
DotStar == [t |-> "dotstar"]
Opt(k) == [t |-> "opt", k |-> k]
Grp(n, k) == [t |-> "grp", n |-> n, k |-> k]
Ref(n) == [t |-> "ref", n |-> n]
Alt(ks) == [t |-> "alt", ks |-> ks]
Bol == [t |-> "bol"]
Eol == [t |-> "eol"]
EndGrp(n, from) == [t |-> "endgrp", n |-> n, from |-> from]

\* a|b|c over literal alternatives
AltLits(ps) == Alt([j \in 1..Len(ps) |-> <<Lit(ps[j])>>])

NoMatch == [ok |-> FALSE, e |-> 0, g |-> <<>>]

\* "." matches any character except a line feed
DotMatches(c) == c # "\n"

\* the literal p (with "." as the regex dot) occurs in s at position i
LitAt(p, s, i) ==
    /\ i + Len(p) - 1 <= Len(s)
    /\ \A j \in 1..Len(p) :
          IF CharAt(p, j) = "."
          THEN DotMatches(CharAt(s, i + j - 1))
          ELSE CharAt(p, j) = CharAt(s, i + j - 1)

\* length of the longest run of characters of class C in s from position i
RECURSIVE RunLen(_, _, _)
RunLen(C, s, i) ==
    IF i <= Len(s) /\ CharAt(s, i) \in C THEN 1 + RunLen(C, s, i + 1) ELSE 0

RECURSIVE DotRunLen(_, _)
DotRunLen(s, i) ==
    IF i <= Len(s) /\ DotMatches(CharAt(s, i)) THEN 1 + DotRunLen(s, i + 1) ELSE 0

\* "$": at the end of the string, or just before a line feed that ends it
AtEol(s, i) == i = Len(s) + 1 \/ (i = Len(s) /\ CharAt(s, i) = "\n")

(***************************************************************************)
(* MatchHere(k, s, i, g): the first match, in the engine's priority order, *)
(* of the node sequence k against s from position i, with the groups g     *)
(* captured so far ("" for a group that did not take part, as findall      *)
(* reports it).  The result is [ok, e, g]: e is the position after the     *)
(* match.                                                                  *)
(***************************************************************************)
RECURSIVE MatchHere(_, _, _, _), TryAlts(_, _, _, _, _, _), TryLens(_, _, _, _, _, _)
MatchHere(k, s, i, g) ==
    IF Len(k) = 0 THEN [ok |-> TRUE, e |-> i, g |-> g]
    ELSE LET h == Head(k)
             rest == Tail(k)
         IN CASE h.t = "lit" ->
                   IF LitAt(h.p, s, i) THEN MatchHere(rest, s, i + Len(h.p), g)
                   ELSE NoMatch
              [] h.t = "bol" ->
                   IF i = 1 THEN MatchHere(rest, s, i, g) ELSE NoMatch
              [] h.t = "eol" ->
                   IF AtEol(s, i) THEN MatchHere(rest, s, i, g) ELSE NoMatch
              [] h.t = "ref" ->
                   \* a reference to a group that did not take part fails
                   IF g[h.n] # "" /\ i + Len(g[h.n]) - 1 <= Len(s)
                      /\ SubSeq(s, i, i + Len(g[h.n]) - 1) = g[h.n]
                   THEN MatchHere(rest, s, i + Len(g[h.n]), g)
                   ELSE NoMatch
              [] h.t = "grp" ->
                   MatchHere(h.k \o <<EndGrp(h.n, i)>> \o rest, s, i, g)
              [] h.t = "endgrp" ->
                   MatchHere(rest, s, i, [g EXCEPT ![h.n] = SubSeq(s, h.from, i - 1)])
              [] h.t = "opt" ->
                   LET taken == MatchHere(h.k \o rest, s, i, g)
                   IN IF taken.ok THEN taken ELSE MatchHere(rest, s, i, g)
              [] h.t = "alt" -> TryAlts(h.ks, 1, rest, s, i, g)
              [] h.t = "plus" -> TryLens(RunLen(h.c, s, i), 1, rest, s, i, g)
              [] h.t = "dotstar" -> TryLens(DotRunLen(s, i), 0, rest, s, i, g)

\* alternatives j.. of ks, leftmost first
TryAlts(ks, j, rest, s, i, g) ==
    IF j > Len(ks) THEN NoMatch
    ELSE LET m == MatchHere(ks[j] \o rest, s, i, g)
         IN IF m.ok THEN m ELSE TryAlts(ks, j + 1, rest, s, i, g)

\* a greedy repetition that may take n characters down to min
TryLens(n, min, rest, s, i, g) ==
    IF n < min THEN NoMatch
    ELSE LET m == MatchHere(rest, s, i + n, g)
         IN IF m.ok THEN m ELSE TryLens(n - 1, min, rest, s, i, g)

\* a compiled pattern: its nodes and its number of capturing groups
Regex(ng, k) == [ng |-> ng, k |-> k]
NoGroups(re) == [n \in 1..re.ng |-> ""]

\* re.search(s): the first match starting at the leftmost possible position;
\* b is where it starts
RECURSIVE SearchFrom(_, _, _)
SearchFrom(re, s, i) ==
    IF i > Len(s) + 1 THEN [ok |-> FALSE, b |-> 0, e |-> 0, g |-> <<>>]
    ELSE LET m == MatchHere(re.k, s, i, NoGroups(re))
         IN IF m.ok THEN [ok |-> TRUE, b |-> i, e |-> m.e, g |-> m.g]
            ELSE SearchFrom(re, s, i + 1)

Search(re, s) == SearchFrom(re, s, 1)

\* re.findall(s): the groups of the successive non-overlapping matches
RECURSIVE FindallFrom(_, _, _)
FindallFrom(re, s, i) ==
    LET m == SearchFrom(re, s, i)
    IN IF ~m.ok THEN <<>>
       ELSE <<m.g>> \o FindallFrom(re, s, IF m.e > m.b THEN m.e ELSE m.e + 1)

Findall(re, s) == FindallFrom(re, s, 1)

(***************************************************************************)
(* BIDSValidator                                                           *)
(***************************************************************************)
anat_suffixes == <<"T1w", "T2w", "T1map", "T2map",
                   "T1rho", "FLAIR", "PD", "PDT2",
                   "inplaneT1", "inplaneT2", "angio",
                   "defacemask", "SWImagandphase">>

\* (?:<pre>[C]+)?  and  (?:<pre>[C]+<post>)?
Tok(pre, C) == Opt(<<Lit(pre), Plus(C)>>)
TokPost(pre, C, post) == Opt(<<Lit(pre), Plus(C), Lit(post)>>)

\* ^\/(sub-[a-zA-Z0-9]+)\/(?:(ses-[a-zA-Z0-9]+)\/)?
SubSesDirs ==
    <<Bol, Lit("/"), Grp(1, <<Lit("sub-"), Plus(AlNum)>>), Lit("/"),
      Opt(<<Grp(2, <<Lit("ses-"), Plus(AlNum)>>), Lit("/")>>)>>

\* \1(_\2)?
SubSesFile == <<Ref(1), Opt(<<Grp(3, <<Lit("_"), Ref(2)>>)>>)>>

fixed_top_level_names ==
    {"/README", "/CHANGES", "/dataset_description.json", "/participants.tsv",
     "/participants.json", "/phasediff.json", "/phase1.json", "/phase2.json",
     "/fieldmap.json"}

func_top_re ==
    Regex(1, <<Bol, Lit("/"), TokPost("ses-", AlNum, "_"),
               TokPost("recording-", AlNum, "_"), Lit("task-"), Plus(AlNum),
               Tok("_acq-", AlNum), Tok("_rec-", AlNum), Tok("_run-", Digit),
               Tok("_echo-", Digit),
               Grp(1, <<AltLits(<<"_bold.json", "_sbref.json", "_events.json",
                                  "_events.tsv", "_physio.json", "_stim.json",
                                  "_beh.json">>)>>),
               Eol>>)

anat_top_re ==
    Regex(1, <<Bol, Lit("/"), TokPost("ses-", AlNum, "_"), Tok("_acq-", AlNum),
               Tok("_rec-", AlNum), TokPost("_run-", Digit, "_"),
               Grp(1, <<AltLits(anat_suffixes)>>), Lit(".json"), Eol>>)

dwi_top_re ==
    Regex(0, <<Bol, Lit("/"), Tok("ses-", AlNum), Tok("_acq-", AlNum),
               Tok("_rec-", AlNum), Tok("_run-", Digit), Opt(<<Lit("_")>>),
               Lit("dwi."), AltLits(<<"json", "bval", "bvec">>), Eol>>)

multi_dir_fieldmap_re ==
    Regex(0, <<Bol, Lit("/"), Lit("dir-"), Plus(AlNum), Lit("_epi.json"), Eol>>)

other_top_files_re ==
    Regex(1, <<Bol, Lit("/"), TokPost("ses-", AlNum, "_"), Tok("recording-", AlNum),
               TokPost("task-", AlNum, "_"), Tok("_acq-", AlNum),
               Tok("_rec-", AlNum), Tok("_run-", Digit),
               Grp(1, <<AltLits(<<"_physio.json", "_stim.json">>)>>), Eol>>)

is_top_level(p) ==
    LET func_top_flag == Search(func_top_re, p).ok
        anat_top_flag == Search(anat_top_re, p).ok
        dwi_top_flag == Search(dwi_top_re, p).ok
        multi_dir_fieldmap_flag == Search(multi_dir_fieldmap_re, p).ok
        other_top_files_flag == Search(other_top_files_re, p).ok
        check_index == p \in fixed_top_level_names
    IN check_index \/ func_top_flag \/ anat_top_flag \/ dwi_top_flag
          \/ multi_dir_fieldmap_flag \/ other_top_files_flag

associated_data_re ==
    Regex(0, <<Bol, Lit("/"), AltLits(<<"code", "derivatives", "sourcedata", "stimuli">>),
               Lit("/"), DotStar, Eol>>)

is_associated_data(ia, p) ==
    IF ~ia THEN FALSE ELSE Search(associated_data_re, p).ok

phenotypic_data ==
    Regex(0, <<Bol, Lit("/"), Lit("phenotype"), Lit("/"),
               Alt(<< <<DotStar, Lit(".tsv")>>, <<DotStar, Lit(".json")>> >>), Eol>>)

is_phenotypic(p) == Search(phenotypic_data, p).ok

\* conditional_match accepting when the filename's session is absent
conditional_match_omit(expression, p) ==
    LET found == Findall(expression, p)
    IN IF Len(found) >= 1
       THEN LET m == found[1]
            IN (m[2] = SubSeq(m[3], 2, Len(m[3]))) \/ (m[3] = "")
       ELSE FALSE

\* findall gives one tuple of groups per match; Python's match[1] and
\* match[2] are the 2nd and 3rd group, m[2] and m[3] here
conditional_match(expression, p) ==
    LET found == Findall(expression, p)
    IN IF Len(found) >= 1
       THEN LET m == found[1]
            IN (m[2] = SubSeq(m[3], 2, Len(m[3]))) \/ (m[2] = "")
       ELSE FALSE

\* is_session_level: scans_re
scans_re ==
    Regex(4, SubSesDirs \o SubSesFile \o
             <<Grp(4, <<AltLits(<<"_scans.tsv", "_scans.json">>)>>), Eol>>)

func_ses_re ==
    Regex(4, SubSesDirs \o SubSesFile \o
             <<Lit("task-"), Plus(AlNum), Tok("_acq-", AlNum), Tok("_rec-", AlNum),
               Tok("_run-", Digit), Tok("_echo-", Digit),
               Grp(4, <<AltLits(<<"_bold.json", "_sbref.json", "_events.json",
                                  "_events.tsv", "_physio.json", "_stim.json">>)>>),
               Eol>>)

anat_ses_re ==
    Regex(4, SubSesDirs \o SubSesFile \o
             <<Tok("_acq-", AlNum), Tok("_rec-", AlNum), TokPost("_run-", Digit, "_"),
               Grp(4, <<AltLits(anat_suffixes)>>), Lit(".json"), Eol>>)

dwi_ses_re ==
    Regex(3, SubSesDirs \o SubSesFile \o
             <<Tok("_acq-", AlNum), Tok("_rec-", AlNum), Tok("_run-", Digit),
               Opt(<<Lit("_")>>), Lit("dwi."), AltLits(<<"json", "bval", "bvec">>),
               Eol>>)

is_session_level(p) ==
    \/ conditional_match(scans_re, p)
    \/ conditional_match(func_ses_re, p)
    \/ conditional_match(anat_ses_re, p)
    \/ conditional_match(dwi_ses_re, p)

\* is_subject_level: scans_re
sessions_re ==
    Regex(2, <<Bol, Lit("/"), Grp(1, <<Lit("sub-"), Plus(AlNum)>>), Lit("/"), Ref(1),
               Grp(2, <<AltLits(<<"_sessions.tsv", "_sessions.json">>)>>), Eol>>)

is_subject_level(p) == Search(sessions_re, p).ok

\* anat_re with rec- before acq-
anat_re_rec_first ==
    Regex(4, SubSesDirs \o <<Lit("anat"), Lit("/")>> \o SubSesFile \o
             <<Tok("_rec-", AlNum), Tok("_acq-", AlNum), Tok("_run-", Digit), Lit("_"),
               AltLits(anat_suffixes), Lit("."),
               Grp(4, <<AltLits(<<"nii.gz", "nii", "json">>)>>), Eol>>)

anat_re ==
    Regex(4, SubSesDirs \o <<Lit("anat"), Lit("/")>> \o SubSesFile \o
             <<Tok("_acq-", AlNum), Tok("_rec-", AlNum), Tok("_run-", Digit), Lit("_"),
               AltLits(anat_suffixes), Lit("."),
               Grp(4, <<AltLits(<<"nii.gz", "nii", "json">>)>>), Eol>>)

is_anat(p) == conditional_match(anat_re, p)

\* dwi_re taking the run token twice
dwi_re_run_twice ==
    Regex(4, SubSesDirs \o <<Lit("dwi"), Lit("/")>> \o SubSesFile \o
             <<Tok("_acq-", AlNum), Tok("_rec-", AlNum), Tok("_run-", Digit),
               Tok("_run-", Digit), Lit("_"),
               AltLits(<<"dwi", "sbref">>), Lit("."),
               Grp(4, <<AltLits(<<"nii.gz", "nii", "json", "bvec", "bval">>)>>), Eol>>)

\* is_dwi: anat_re
dwi_re ==
    Regex(4, SubSesDirs \o <<Lit("dwi"), Lit("/")>> \o SubSesFile \o
             <<Tok("_acq-", AlNum), Tok("_rec-", AlNum), Tok("_run-", Digit), Lit("_"),
               AltLits(<<"dwi", "sbref">>), Lit("."),
               Grp(4, <<AltLits(<<"nii.gz", "nii", "json", "bvec", "bval">>)>>), Eol>>)

is_dwi(p) == conditional_match(dwi_re, p)

\* is_field_map: anat_re
fmap_re ==
    Regex(4, SubSesDirs \o <<Lit("fmap"), Lit("/")>> \o SubSesFile \o
             <<Tok("_acq-", AlNum), Tok("_rec-", AlNum), Tok("_dir-", AlNum),
               Tok("_run-", Digit), Lit("_"),
               AltLits(<<"phasediff", "phase1", "phase2", "magnitude1",
                         "magnitude2", "magnitude", "fieldmap", "epi">>), Lit("."),
               Grp(4, <<AltLits(<<"nii.gz", "nii", "json">>)>>), Eol>>)

is_field_map(p) == conditional_match(fmap_re, p)

\* func_re with an optional task token
func_re_task_optional ==
    Regex(3, SubSesDirs \o <<Lit("func"), Lit("/")>> \o SubSesFile \o
             <<Tok("_task-", AlNum), Tok("_acq-", AlNum), Tok("_rec-", AlNum),
               Tok("_run-", Digit), Tok("_echo-", Digit),
               AltLits(<<"_bold.nii.gz", "_bold.nii", "_bold.json", "_sbref.nii.gz",
                         "_sbref.json", "_events.json", "_events.tsv",
                         "_physio.tsv.gz", "_stim.tsv.gz", "_physio.json",
                         "_stim.json", "_defacemask.nii.gz", "_defacemask.nii">>),
               Eol>>)

func_re ==
    Regex(3, SubSesDirs \o <<Lit("func"), Lit("/")>> \o SubSesFile \o
             <<Lit("_task-"), Plus(AlNum), Tok("_acq-", AlNum), Tok("_rec-", AlNum),
               Tok("_run-", Digit), Tok("_echo-", Digit),
               AltLits(<<"_bold.nii.gz", "_bold.nii", "_bold.json", "_sbref.nii.gz",
                         "_sbref.json", "_events.json", "_events.tsv",
                         "_physio.tsv.gz", "_stim.tsv.gz", "_physio.json",
                         "_stim.json", "_defacemask.nii.gz", "_defacemask.nii">>),
               Eol>>)

is_func(p) == conditional_match(func_re, p)

\* func_beh reaching into the func directory as well
func_beh_any_dir ==
    Regex(3, SubSesDirs \o <<AltLits(<<"func", "beh">>), Lit("/")>> \o SubSesFile \o
             <<Lit("_task-"), Plus(AlNum), Tok("_acq-", AlNum), Tok("_rec-", AlNum),
               Tok("_run-", Digit),
               AltLits(<<"_beh.json", "_events.json", "_events.tsv", "_physio.tsv.gz",
                         "_stim.tsv.gz", "_physio.json", "_stim.json">>),
               Eol>>)

func_beh ==
    Regex(3, SubSesDirs \o <<Lit("beh"), Lit("/")>> \o SubSesFile \o
             <<Lit("_task-"), Plus(AlNum), Tok("_acq-", AlNum), Tok("_rec-", AlNum),
               Tok("_run-", Digit),
               AltLits(<<"_beh.json", "_events.json", "_events.tsv", "_physio.tsv.gz",
                         "_stim.tsv.gz", "_physio.json", "_stim.json">>),
               Eol>>)

is_behavioral(p) == conditional_match(func_beh, p)

\* is_func_bold: func_re
func_bold_re ==
    Regex(3, SubSesDirs \o <<Lit("func"), Lit("/")>> \o SubSesFile \o
             <<Lit("_task-"), Plus(AlNum), Tok("_acq-", AlNum), Tok("_rec-", AlNum),
               Tok("_run-", Digit), Tok("_echo-", Digit),
               AltLits(<<"_bold.nii.gz", "_bold.nii", "_sbref.nii.gz", "_sbref.nii">>),
               Eol>>)

is_func_bold(p) == conditional_match(func_bold_re, p)

cont_re ==
    Regex(3, SubSesDirs \o <<AltLits(<<"func", "beh">>), Lit("/")>> \o SubSesFile \o
             <<Lit("_task-"), Plus(AlNum), Tok("_acq-", AlNum), Tok("_rec-", AlNum),
               Tok("_run-", Digit), Tok("_recording-", AlNum),
               AltLits(<<"_physio.tsv.gz", "_stim.tsv.gz", "_physio.json",
                         "_stim.json">>),
               Eol>>)

is_cont(p) == conditional_match(cont_re, p)

\* the category rules in the order is_bids combines them
RuleNames ==
    <<"is_top_level", "is_associated_data", "is_session_level", "is_subject_level",
      "is_anat", "is_dwi", "is_func", "is_behavioral", "is_cont", "is_field_map",
      "is_phenotypic">>

\* the value of one category rule of a validator built with index_associated = ia
RuleValue(name, ia, p) ==
    CASE name = "is_top_level" -> is_top_level(p)
      [] name = "is_associated_data" -> is_associated_data(ia, p)
      [] name = "is_session_level" -> is_session_level(p)
      [] name = "is_subject_level" -> is_subject_level(p)
      [] name = "is_anat" -> is_anat(p)
      [] name = "is_dwi" -> is_dwi(p)
      [] name = "is_func" -> is_func(p)
      [] name = "is_behavioral" -> is_behavioral(p)
      [] name = "is_cont" -> is_cont(p)
      [] name = "is_field_map" -> is_field_map(p)
      [] name = "is_phenotypic" -> is_phenotypic(p)

\* Python's | on two bools
BitOr(a, b) == a \/ b

\* a | b | c | ... associates to the left
RECURSIVE OrChain(_, _)
OrChain(vals, n) ==
    IF n = 1 THEN vals[1] ELSE BitOr(OrChain(vals, n - 1), vals[n])

\* is_bids without its last operand
is_bids_short(f) ==
    OrChain([j \in 1..Len(RuleNames) |-> f[RuleNames[j]]], Len(RuleNames) - 1)

\* is_bids of the rule values f (one BOOLEAN per rule name)
is_bids(f) ==
    OrChain([j \in 1..Len(RuleNames) |-> f[RuleNames[j]]], Len(RuleNames))

\* what re.compile reports for the parentheses of a pattern: "" when they
\* balance (an escaped character and the inside of [...] do not count)
RECURSIVE ParenScan(_, _, _, _)
ParenScan(pat, i, depth, inClass) ==
    IF i > Len(pat) THEN (IF depth > 0 THEN "missing ), unterminated subpattern" ELSE "")
    ELSE LET c == CharAt(pat, i)
         IN IF c = "\\" THEN ParenScan(pat, i + 2, depth, inClass)
            ELSE IF inClass THEN ParenScan(pat, i + 1, depth, c # "]")
            ELSE IF c = "[" THEN ParenScan(pat, i + 1, depth, TRUE)
            ELSE IF c = "(" THEN ParenScan(pat, i + 1, depth + 1, FALSE)
            ELSE IF c = ")"
                 THEN (IF depth = 0 THEN "unbalanced parenthesis"
                       ELSE ParenScan(pat, i + 1, depth - 1, FALSE))
            ELSE ParenScan(pat, i + 1, depth, FALSE)

CompileError(pat) == ParenScan(pat, 1, 0, FALSE)

\* r'/^\/sub-([a-zA-Z0-9]+)/)'
sub_pattern == "/^\\/sub-([a-zA-Z0-9]+)/)"

\* get_path_values: its first statement compiles sub_pattern; had that
\* succeeded, "match & match[1]" indexes past a short list or applies & to a
\* list and a string
get_path_values(p) ==
    LET err == CompileError(sub_pattern)
    IN IF err # ""
       THEN [raised |-> TRUE, value |-> "re.error: " \o err]
       ELSE [raised |-> TRUE, value |-> "IndexError or TypeError"]

(***************************************************************************)
(* Threshold._transform                                                    *)
(***************************************************************************)
Abs(x) == IF x < 0 THEN -x ELSE x

Threshold_transform(d, thr, bin, abv, sgn) ==
    LET t == IF sgn THEN thr ELSE Abs(thr)
        v == [j \in 1..Len(d) |-> IF sgn THEN d[j] ELSE Abs(d[j])]
        keep == [j \in 1..Len(d) |-> IF abv THEN v[j] >= t ELSE v[j] <= t]
        cut == [j \in 1..Len(d) |-> IF ~keep[j] THEN 0 ELSE v[j]]
    IN IF bin THEN [j \in 1..Len(d) |-> IF keep[j] THEN 1 ELSE cut[j]] ELSE cut

(***************************************************************************)
(* Input paths.  A path is put together from pieces drawn from small       *)
(* pools; the bounds say how much of each pool is used.                    *)
(***************************************************************************)
NSub == 2
NSes == 2
MaxToks == 2

Min(a, b) == IF a < b THEN a ELSE b
Take(pool, n) == {pool[j] : j \in 1..Min(n, Len(pool))}

SubLabelPool == <<"01", "011", "anat", "x9">>
SesLabelPool == <<"test", "other", "test2", "func">>
SubLabels == Take(SubLabelPool, NSub)
SesLabels == Take(SesLabelPool, NSes)

\* the subject and session named by the directories and by the filename;
\* "" is an absent session
Ids == [dsub : SubLabels, dses : SesLabels \cup {""},
        fsub : SubLabels, fses : SesLabels \cup {""}]
SameIds == {id \in Ids : id.dsub = id.fsub /\ id.dses = id.fses}

\* /sub-<dsub>/[ses-<dses>/][<mod>/]sub-<fsub>[_ses-<fses>]<rest>
Render(id, mod, rest) ==
    "/sub-" \o id.dsub \o "/"
    \o (IF id.dses = "" THEN "" ELSE "ses-" \o id.dses \o "/")
    \o (IF mod = "" THEN "" ELSE mod \o "/")
    \o "sub-" \o id.fsub
    \o (IF id.fses = "" THEN "" ELSE "_ses-" \o id.fses)
    \o rest

\* all sequences of at most n tokens of the set T, written in a row
RECURSIVE TokStrings(_, _)
TokStrings(T, n) ==
    IF n = 0 THEN {""}
    ELSE LET shorter == TokStrings(T, n - 1)
         IN shorter \cup {s \o t : s \in shorter, t \in T}

\* the ids of the first subject with matching directories and filename
BaseIds == {id \in SameIds : id.dsub = SubLabelPool[1] /\ id.dses \in {"", SesLabelPool[1]}}

\* the subsets of acq, rec, run in the order the patterns want them
OrderedAnatToks ==
    {a \o r \o n : a \in {"", "_acq-A"}, r \in {"", "_rec-CSD"}, n \in {"", "_run-23"}}

AnatSuffixSet == {anat_suffixes[j] : j \in 1..Len(anat_suffixes)}
AnatExts == {".nii", ".nii.gz", ".json"}

\* /sub-L/[ses-S/]anat/sub-L[_ses-S][_acq-A][_rec-R][_run-N]_<suffix><ext>
WellFormedAnat(ids, toks, sufs) ==
    {Render(id, "anat", t \o "_" \o suf \o ext) :
        id \in ids, t \in toks, suf \in sufs, ext \in AnatExts}

AnatPaths ==
    WellFormedAnat(BaseIds, OrderedAnatToks, AnatSuffixSet)
    \cup WellFormedAnat(SameIds, {"", "_acq-A_rec-CSD_run-23"}, {"T1w", "PDT2"})

\* the directory names a session, the filename names none
AnatSessionOmitted ==
    {Render(id, "anat", "_" \o suf \o ext) :
        id \in {i \in Ids : i.dsub = i.fsub /\ i.dses # "" /\ i.fses = ""},
        suf \in AnatSuffixSet, ext \in AnatExts}

\* anatomical directory, filename ending in something else
OddAnatPaths ==
    {Render(id, "anat", t \o suf \o ext) :
        id \in BaseIds, t \in {"", "_acq-23_rec-CSD"},
        suf \in {"_T1w", "_PDT2", "_inplaneT1", "_bold", "_t1w", "T1w", "_T1w_T1w", ""},
        ext \in {".exe", "Xnii", "_nii", ".niiXgz", ".nii.gzz", ".nii\n", ".tsv", "",
                 ".json.json", ".nii", ".json"}}

\* every combination of directory and filename identity, one file per category
IdPaths ==
    {Render(id, m[1], m[2]) :
        id \in Ids,
        m \in {<<"anat", "_T1w.nii.gz">>, <<"dwi", "_run-01_dwi.bvec">>,
               <<"fmap", "_dir-AP_epi.json">>, <<"func", "_task-rest_bold.nii.gz">>,
               <<"func", "_task-rest_physio.tsv.gz">>, <<"func", "_task-rest_sbref.nii">>,
               <<"beh", "_task-rest_beh.json">>, <<"", "_scans.tsv">>,
               <<"", "_run-01_dwi.bvec">>, <<"", "task-rest_bold.json">>,
               <<"", "T1w.json">>, <<"", "_sessions.tsv">>}}

\* endings of the functional rule, and some it does not list
FuncEndings ==
    {"_bold.nii.gz", "_bold.nii", "_bold.json", "_sbref.nii.gz", "_sbref.json",
     "_events.json", "_events.tsv", "_physio.tsv.gz", "_stim.tsv.gz", "_physio.json",
     "_stim.json", "_defacemask.nii.gz", "_defacemask.nii", "_sbref.nii", "_beh.json",
     "_bold.exe"}

\* func/ and beh/ filenames: up to MaxToks tokens in any order, then an ending
FuncToks == {"_task-rest", "_acq-A", "_run-1", "task-rest", "_task-"}
FuncPaths ==
    {Render(id, m, t \o e) :
        id \in BaseIds, m \in {"func", "beh"}, t \in TokStrings(FuncToks, MaxToks),
        e \in {"_bold.nii.gz", "_events.tsv", "_physio.json"}}
    \cup {Render(id, "func", t \o e) :
            id \in BaseIds,
            t \in {"", "_task-rest", "_acq-A", "_Task-rest", "_recording-x",
                   "_task-rest_acq-A_rec-R_run-1_echo-2", "_task-rest_recording-x"},
            e \in FuncEndings}

\* sidecars at the session level, with and without "_" before task-
SessionSidecars ==
    {"_bold.json", "_sbref.json", "_events.json", "_events.tsv", "_physio.json",
     "_stim.json"}
TaskLabels == {"rest", "nback2"}
SessionTaskPaths(ids, sep) ==
    {Render(id, "", sep \o "task-" \o T \o mods \o sc) :
        id \in ids, T \in TaskLabels, mods \in {"", "_acq-A_rec-R_run-1_echo-2"},
        sc \in SessionSidecars}
SessionPaths ==
    SessionTaskPaths(SameIds, "_") \cup SessionTaskPaths(SameIds, "")
    \cup {Render(id, "", r) :
            id \in BaseIds,
            r \in {"_scans.tsv", "_scans.json", "_sessions.json", "_T1w.json",
                   "_acq-A_run-1_T1w.json", "_dwi.json", "dwi.bval", "_acq-A_dwi.bvec",
                   "_scans.exe", "_task-rest_bold.nii.gz"}}

\* other categories: diffusion, field maps, behaviour
OtherPaths ==
    {Render(id, "dwi", t \o e) :
        id \in BaseIds, t \in {"", "_acq-A_rec-R_run-1"},
        e \in {"_dwi.nii.gz", "_dwi.bvec", "_dwi.bval", "_sbref.json", "_dwi.tsv"}}
    \cup {Render(id, "fmap", t \o e) :
            id \in BaseIds, t \in {"", "_acq-A_dir-AP_run-1"},
            e \in {"_phasediff.nii", "_magnitude1.nii.gz", "_magnitude.json",
                   "_epi.nii.gz", "_fieldmap.json", "_phase3.nii"}}
    \cup {Render(id, "beh", t \o e) :
            id \in BaseIds, t \in {"_task-rest", "_task-rest_recording-x"},
            e \in {"_beh.json", "_events.tsv", "_physio.tsv.gz", "_stim.json",
                   "_bold.nii"}}

\* modifier tokens in every order: up to MaxToks of them, repeats included,
\* between the prefix and an ending that the directory's rule lists
ModifierToks == {"_acq-A", "_rec-R", "_dir-AP", "_run-1", "_echo-2", "_recording-x"}
NoSessionId ==
    [dsub |-> SubLabelPool[1], dses |-> "", fsub |-> SubLabelPool[1], fses |-> ""]
ModalityFrames ==
    {<<"anat", "", "_T1w.nii.gz">>, <<"dwi", "", "_dwi.nii.gz">>,
     <<"fmap", "", "_epi.nii.gz">>, <<"func", "_task-rest", "_bold.nii.gz">>,
     <<"func", "_task-rest", "_physio.tsv.gz">>, <<"beh", "_task-rest", "_beh.json">>,
     <<"beh", "_task-rest", "_stim.json">>}
ModifierPaths ==
    {Render(NoSessionId, fr[1], fr[2] \o t \o fr[3]) :
        fr \in ModalityFrames, t \in TokStrings(ModifierToks, MaxToks)}

\* every subset of the modifiers a rule lists, in the order it lists them
OrderedModifierPaths ==
    LET A == {"", "_acq-A"}
        R == {"", "_rec-R"}
        D == {"", "_dir-AP"}
        N == {"", "_run-1"}
        E == {"", "_echo-2"}
        C == {"", "_recording-x"}
    IN {Render(id, "dwi", a \o r \o n \o "_dwi.bval") :
            id \in BaseIds, a \in A, r \in R, n \in N}
       \cup {Render(id, "fmap", a \o r \o d \o n \o "_phasediff.json") :
                id \in BaseIds, a \in A, r \in R, d \in D, n \in N}
       \cup {Render(id, "func", "_task-rest" \o a \o r \o n \o e \o "_bold.nii") :
                id \in BaseIds, a \in A, r \in R, n \in N, e \in E}
       \cup {Render(id, "beh", "_task-rest" \o a \o r \o n \o "_events.tsv") :
                id \in BaseIds, a \in A, r \in R, n \in N}
       \cup {Render(id, "func", "_task-rest" \o a \o r \o n \o c \o "_stim.tsv.gz") :
                id \in BaseIds, a \in A, r \in R, n \in N, c \in C}

\* what may follow /code/, /derivatives/, /sourcedata/, /stimuli/
AssociatedTails ==
    {"", "x", "a/b.txt", "sub-01/anat/sub-01_T1w.nii.gz", "participants.tsv",
     "task-rest_bold.json", "a b", "a\n", "a\nb", "\n\n"}
AssociatedDirs == {"/code/", "/derivatives/", "/sourcedata/", "/stimuli/"}
AssociatedPaths == {d \o t : d \in AssociatedDirs, t \in AssociatedTails}

\* paths outside the subject directories
RootPaths ==
    fixed_top_level_names
    \cup {"/task-rest_bold.json", "/ses-test_task-rest_acq-A_run-1_events.tsv",
          "/task-rest_beh.json", "/T1w.json", "/ses-test_T1w.json", "/dwi.json",
          "/ses-test_acq-A_dwi.bval", "/dir-AP_epi.json", "/_physio.json",
          "/task-rest__stim.json", "/README.md", "/readme", "/participants.tsv\n",
          "/phenotype/measure.tsv", "/phenotype/measure.json", "/phenotype/.tsv",
          "/phenotype/measure.csv", "/phenotype/a/b.json", "/phenotype",
          "/code", "/codes/x", "code/x", "/derivatives", "/x/code/y",
          "", "/", "/sub-01", "/sub-01/", "/sub-/anat/sub-_T1w.nii",
          "sub-01/anat/sub-01_T1w.nii.gz", "/ses-2/sub-07_ses-2_task-rest_bold.nii.gz",
          "/sub-07/ses-2/func/sub-07_ses-2_task-rest_bold.nii.gz",
          "/sub-07/func/sub-07_task-rest_bold.nii.gz",
          "/sub-0_1/anat/sub-0_1_T1w.nii", "/data/sub-01/anat/sub-01_T1w.nii",
          "/sub-01/ses-test/anat/sub-01_ses-test_rec-CSD_run-23_T1w.nii.gz",
          "/sub-01/anat/sub-01_acq-23_rec-CSD_T1w.exe",
          "/sub-01/ses-test/sub-01_run-01_dwi.bvec"}

Paths ==
    AnatPaths \cup AnatSessionOmitted \cup OddAnatPaths \cup IdPaths \cup FuncPaths \cup SessionPaths
    \cup OtherPaths \cup ModifierPaths \cup OrderedModifierPaths \cup AssociatedPaths
    \cup RootPaths

(***************************************************************************)
(* The validator as a state machine: a validator is built with its         *)
(* index_associated flag, is handed a path, and one of its methods is      *)
(* called on it.                                                           *)
(***************************************************************************)
NoFlags == [name \in {RuleNames[j] : j \in 1..Len(RuleNames)} |-> FALSE]
NoRet == [method |-> "none", raised |-> FALSE, value |-> FALSE]

Init ==
    /\ index_associated \in BOOLEAN
    /\ path \in Paths
    /\ pc = "ready"
    /\ flags = NoFlags
    /\ ret = NoRet
    /\ data = <<>> /\ threshold = 0 /\ binarize = FALSE /\ above = TRUE
    /\ signed = TRUE /\ out = <<>>

\* validator.is_bids(path): every rule is evaluated ("|" does not short-circuit)
IsBids ==
    /\ pc = "ready"
    /\ flags' = [name \in DOMAIN NoFlags |-> RuleValue(name, index_associated, path)]
    /\ ret' = [method |-> "is_bids", raised |-> FALSE, value |-> is_bids(flags')]
    /\ pc' = "returned"
    /\ UNCHANGED <<index_associated, path, thresholdVars>>

\* validator.is_func_bold(path)
IsFuncBold ==
    /\ pc = "ready"
    /\ ret' = [method |-> "is_func_bold", raised |-> FALSE, value |-> is_func_bold(path)]
    /\ pc' = "returned"
    /\ UNCHANGED <<index_associated, path, flags, thresholdVars>>

\* validator.get_path_values(path)
GetPathValues ==
    /\ pc = "ready"
    /\ LET r == get_path_values(path)
       IN ret' = [method |-> "get_path_values", raised |-> r.raised, value |-> r.value]
    /\ pc' = "returned"
    /\ UNCHANGED <<index_associated, path, flags, thresholdVars>>

Next == IsBids \/ IsFuncBold \/ GetPathValues

Spec == Init /\ [][Next]_vars

(***************************************************************************)
(* Threshold as a state machine: a series and the arguments are given,     *)
(* _transform is applied once.                                             *)
(***************************************************************************)
MaxLen == 2
MaxVal == 2

Values == (0 - MaxVal)..MaxVal
RECURSIVE SeriesUpTo(_)
SeriesUpTo(n) ==
    IF n = 0 THEN {<<>>}
    ELSE LET shorter == SeriesUpTo(n - 1)
         IN shorter \cup {Append(d, x) : d \in shorter, x \in Values}

InitThreshold ==
    /\ data \in SeriesUpTo(MaxLen)
    /\ threshold \in Values
    /\ binarize \in BOOLEAN
    /\ above \in BOOLEAN
    /\ signed \in BOOLEAN
    /\ out = <<>>
    /\ pc = "ready"
    /\ index_associated = TRUE /\ path = "" /\ flags = NoFlags /\ ret = NoRet

Transform ==
    /\ pc = "ready"
    /\ out' = Threshold_transform(data, threshold, binarize, above, signed)
    /\ pc' = "returned"
    /\ UNCHANGED <<data, threshold, binarize, above, signed, validatorVars>>

NextThreshold == Transform

SpecThreshold == InitThreshold /\ [][NextThreshold]_vars

(***************************************************************************)
(* Properties                                                              *)
(***************************************************************************)
Returned(method) == pc = "returned" /\ ret.method = method

StartsWith(s, t) == Len(t) <= Len(s) /\ SubSeq(s, 1, Len(t)) = t
EndsWith(s, t) == Len(t) <= Len(s) /\ SubSeq(s, Len(s) - Len(t) + 1, Len(s)) = t

\* the rules in another order: rotated by r places, and reversed
NRules == Len(RuleNames)
Rotated(r) == [j \in 1..NRules |-> RuleNames[((j + r - 1) % NRules) + 1]]
Reversed == [j \in 1..NRules |-> RuleNames[NRules + 1 - j]]
Swapped(a) ==
    [j \in 1..NRules |->
        IF j = a THEN RuleNames[a + 1] ELSE IF j = a + 1 THEN RuleNames[a] ELSE RuleNames[j]]
EvalOrders ==
    {Rotated(r) : r \in 0..(NRules - 1)} \cup {Reversed}
    \cup {Swapped(a) : a \in 1..(NRules - 1)}
OrInOrder(order, f) == OrChain([j \in 1..NRules |-> f[order[j]]], NRules)

\* C1: is_bids(path) is True exactly when at least one of the eleven
\* category rules is True on the path, whatever index_associated is, and
\* combining the rules in another order gives the same value.
C1_IsBidsIsOrOfRules ==
    Returned("is_bids") =>
        /\ ret.value <=> (\E name \in DOMAIN flags : flags[name])
        /\ \A order \in EvalOrders : OrInOrder(order, flags) = ret.value

\* is_bids has returned True on a path that only the last rule accepts
C1_Witness ==
    /\ Returned("is_bids")
    /\ ret.value
    /\ flags["is_phenotypic"]
    /\ \A name \in DOMAIN flags : name # "is_phenotypic" => ~flags[name]

\* anatomical paths sub-L in both places, by whether the two sessions agree
AnatById(ids) ==
    {Render(id, "anat", "_" \o suf \o ext) :
        id \in ids, suf \in AnatSuffixSet, ext \in AnatExts}
AnatSessionsAgree == AnatById({id \in Ids : id.dsub = id.fsub /\ id.dses = id.fses})
AnatSessionsDiffer == AnatById({id \in Ids : id.dsub = id.fsub /\ id.dses # id.fses})

\* one file of each two-level rule: directory, rest of the filename, rule
TwoLevelSamples ==
    {<<"anat", "_T1w.nii.gz", "is_anat">>, <<"dwi", "_run-01_dwi.bvec", "is_dwi">>,
     <<"fmap", "_dir-AP_epi.json", "is_field_map">>,
     <<"func", "_task-rest_bold.nii.gz", "is_func">>,
     <<"func", "_task-rest_physio.tsv.gz", "is_cont">>,
     <<"beh", "_task-rest_beh.json", "is_behavioral">>,
     <<"", "_scans.tsv", "is_session_level">>,
     <<"", "_run-01_dwi.bvec", "is_session_level">>}
\* the samples with the subject in both places and the sessions agreeing or
\* not, each paired with its rule
SamplePaths(agree) ==
    {<<m[3], Render(id, m[1], m[2])>> :
        m \in TwoLevelSamples,
        id \in {i \in Ids : i.dsub = i.fsub /\ ((i.dses = i.fses) <=> agree)}}
SamplesAgree == SamplePaths(TRUE)
SamplesDiffer == SamplePaths(FALSE)

\* C2 as stated: a path /sub-L/ses-S/anat/sub-L_<suffix>.<ext>, whose
\* filename omits the session of the directory, is accepted by is_anat and
\* by is_bids.
C2_OmissionAccepted ==
    Returned("is_bids") /\ path \in AnatSessionOmitted =>
        flags["is_anat"] /\ ret.value

\* C2 amended: an anatomical path whose filename omits the session its
\* directory carries is rejected by is_anat and is_bids; the rule accepts
\* exactly when the directory has no session (and the filename then has
\* none) or the filename's session equals the directory's.
C2_OmissionRejected ==
    Returned("is_bids") =>
        /\ path \in AnatSessionOmitted => ~flags["is_anat"] /\ ~ret.value
        /\ path \in AnatSessionsAgree => flags["is_anat"]
        /\ path \in AnatSessionsDiffer => ~flags["is_anat"] /\ ~ret.value
        /\ \A name \in DOMAIN flags :
              /\ <<name, path>> \in SamplesAgree => flags[name]
              /\ <<name, path>> \in SamplesDiffer => ~flags[name] /\ ~ret.value

\* is_bids has rejected /sub-01/ses-test/anat/sub-01_T1w.nii.gz
C2_Witness ==
    /\ Returned("is_bids")
    /\ path = "/sub-01/ses-test/anat/sub-01_T1w.nii.gz"
    /\ ~flags["is_anat"]
    /\ ~ret.value

\* the pieces of s between the separators sep
RECURSIVE SplitFrom(_, _, _, _)
SplitFrom(s, sep, i, start) ==
    IF i > Len(s) THEN <<SubSeq(s, start, Len(s))>>
    ELSE IF CharAt(s, i) = sep
         THEN <<SubSeq(s, start, i - 1)>> \o SplitFrom(s, sep, i + 1, i + 1)
         ELSE SplitFrom(s, sep, i + 1, start)
Split(s, sep) == SplitFrom(s, sep, 1, 1)

\* tok is pre followed by a label of letters and digits
IsLabelTok(tok, pre) ==
    /\ StartsWith(tok, pre)
    /\ Len(tok) > Len(pre)
    /\ RunLen(AlNum, tok, Len(pre) + 1) = Len(tok) - Len(pre)

\* the directories and the filename of a path (its pieces between "/"), and
\* the identity tokens of both; "" is an absent token
Segs(p) == Split(p, "/")
LastOf(segs) == segs[Len(segs)]
FileName(p) == LastOf(Segs(p))
SubjectScoped(segs) == Len(segs) >= 3 /\ segs[1] = "" /\ StartsWith(segs[2], "sub-")
DirSubTok(segs) == segs[2]
DirSesTok(segs) == IF Len(segs) >= 4 /\ StartsWith(segs[3], "ses-") THEN segs[3] ELSE ""
\* the filename's tokens are its pieces between "_"
FileSubTok(toks) == toks[1]
FileSesTok(toks) == IF Len(toks) >= 2 /\ StartsWith(toks[2], "ses-") THEN toks[2] ELSE ""

\* /sub-L/[ses-S/]<mod>/<filename>
ModalityShape(segs, mod) ==
    /\ Len(segs) \in {4, 5}
    /\ segs[1] = ""
    /\ IsLabelTok(segs[2], "sub-")
    /\ \/ Len(segs) = 4 /\ segs[3] = mod
       \/ Len(segs) = 5 /\ IsLabelTok(segs[3], "ses-") /\ segs[4] = mod

ConditionalRules ==
    {"is_session_level", "is_anat", "is_dwi", "is_field_map", "is_func",
     "is_behavioral", "is_cont"}
AcceptedByConditionalRule ==
    \/ Returned("is_bids") /\ \E name \in ConditionalRules : flags[name]
    \/ Returned("is_func_bold") /\ ret.value

\* C3: a path accepted by a rule that goes through conditional_match has a
\* filename whose subject token is the directory's, and whose session token
\* is absent when the directory has none and the same as the directory's
\* otherwise; a path whose directory has a session that the filename lacks
\* or names differently is rejected by is_bids.
C3_BackreferenceConsistent ==
    LET segs == Segs(path)
        toks == Split(LastOf(segs), "_")
    IN /\ AcceptedByConditionalRule =>
             /\ FileSubTok(toks) = DirSubTok(segs)
             /\ FileSesTok(toks) = DirSesTok(segs)
       /\ Returned("is_bids") /\ SubjectScoped(segs) /\ DirSesTok(segs) # ""
             /\ FileSesTok(toks) # DirSesTok(segs) => ~ret.value

\* C4: a path that starts with /code/, /derivatives/, /sourcedata/ or
\* /stimuli/ is accepted by is_bids when index_associated is True and
\* rejected when it is False, whatever follows the prefix.
C4_AssociatedToggle ==
    Returned("is_bids") /\ (\E d \in AssociatedDirs : StartsWith(path, d)) =>
        (ret.value <=> index_associated)

\* C5: a well-formed anatomical path, with the session used consistently
\* and the modifiers acq, rec, run in that order, is accepted by is_bids,
\* and the rule that accepts it is is_anat and no other.
WellFormedAnatPaths == WellFormedAnat(SameIds, OrderedAnatToks, AnatSuffixSet)
C5_WellFormedAnatAccepted ==
    Returned("is_bids") /\ path \in WellFormedAnatPaths =>
        /\ ret.value
        /\ flags["is_anat"]
        /\ \A name \in DOMAIN flags : name # "is_anat" => ~flags[name]

\* is_bids has accepted a path with a session and all three modifiers
C5_Witness ==
    /\ Returned("is_bids")
    /\ path = "/sub-01/ses-test/anat/sub-01_ses-test_acq-A_rec-CSD_run-23_PDT2.nii.gz"
    /\ ret.value
    /\ flags["is_anat"]

\* the filename ends with _<anatomical suffix> and .nii, .nii.gz or .json
ProperAnatEnding(fn) ==
    \E suf \in AnatSuffixSet, ext \in AnatExts : EndsWith(fn, "_" \o suf \o ext)

\* C6: in the anatomical directory shape, a filename that does not end
\* with "_", an anatomical suffix and exactly .nii, .nii.gz or .json is
\* rejected by is_anat and by is_bids.
C6_ClosedAnatEndings ==
    Returned("is_bids") /\ ModalityShape(Segs(path), "anat")
        /\ ~ProperAnatEnding(FileName(path)) =>
        ~flags["is_anat"] /\ ~ret.value

\* /sub-L/[ses-S/]sub-L[_ses-S]_task-T<sidecar>
SessionSidecarPaths ==
    {Render(id, "", "_task-" \o T \o sc) :
        id \in SameIds, T \in TaskLabels, sc \in SessionSidecars}

\* C7: a session-level sidecar /sub-L/[ses-S/]sub-L[_ses-S]_task-T<sidecar>
\* is accepted by is_session_level and so by is_bids.
C7_SessionSidecarsAccepted ==
    Returned("is_bids") /\ path \in SessionSidecarPaths =>
        flags["is_session_level"] /\ ret.value

\* where the subject/session prefix sub-L[_ses-S] of a filename ends
\* (0 when the filename does not start with a subject token)
AfterPrefix(fn) ==
    IF ~StartsWith(fn, "sub-") \/ RunLen(AlNum, fn, 5) = 0 THEN 0
    ELSE LET a == 4 + RunLen(AlNum, fn, 5)
             rest == SubSeq(fn, a + 1, Len(fn))
         IN IF StartsWith(rest, "_ses-") /\ RunLen(AlNum, rest, 6) > 0
            THEN a + 5 + RunLen(AlNum, rest, 6)
            ELSE a
\* _task-<label> comes directly after the prefix
TaskAfterPrefix(fn) ==
    LET rest == SubSeq(fn, AfterPrefix(fn) + 1, Len(fn))
    IN AfterPrefix(fn) > 0 /\ StartsWith(rest, "_task-") /\ RunLen(AlNum, rest, 7) > 0

\* C8: under /sub-L/[ses-S/]func/, a filename without a _task-<label>
\* token directly after the subject/session prefix is rejected by is_func,
\* and by every other rule, so is_bids returns False.
C8_TaskMandatoryInFunc ==
    Returned("is_bids") /\ ModalityShape(Segs(path), "func")
        /\ ~TaskAfterPrefix(FileName(path)) =>
        ~flags["is_func"] /\ ~ret.value

\* is_bids has rejected a functional image whose name has no task token
C8_Witness ==
    /\ Returned("is_bids")
    /\ path = "/sub-01/ses-test/func/sub-01_ses-test_acq-A_bold.nii.gz"
    /\ ~TaskAfterPrefix(FileName(path))
    /\ ~flags["is_func"]
    /\ ~ret.value

\* the labels get_path_values is to report; "None" is the absent value
NoneValue == "None"
LabelAfter(p, marker) ==
    IF StartsWith(p, marker) /\ RunLen(AlNum, p, Len(marker) + 1) > 0
    THEN SubSeq(p, Len(marker) + 1, Len(marker) + RunLen(AlNum, p, Len(marker) + 1))
    ELSE NoneValue
ExpectedSub(p) == LabelAfter(p, "/sub-")
ExpectedSes(p) ==
    IF ExpectedSub(p) = NoneValue THEN NoneValue
    ELSE LabelAfter(p, "/sub-" \o ExpectedSub(p) \o "/ses-")

\* C9: get_path_values returns, for every path and without raising, a
\* mapping with the keys sub and ses: the label after /sub- and the label
\* after /sub-<label>/ses-, each None when its marker is not found.
C9_PathValuesTotal ==
    Returned("get_path_values") =>
        /\ ~ret.raised
        /\ ret.value = [sub |-> ExpectedSub(path), ses |-> ExpectedSes(path)]

\* the threshold test of an element, as the arguments describe it
Retained(x) ==
    LET t == IF signed THEN threshold ELSE Abs(threshold)
        v == IF signed THEN x ELSE Abs(x)
    IN IF above THEN v >= t ELSE v <= t

\* C10: with binarize=True every element of the result is 0 or 1, it is 1
\* only if the input element was non-zero and retained by the threshold
\* test, and an input element equal to 0 stays 0.
C10_BinarizeOnlyNonZero ==
    pc = "returned" /\ binarize =>
        /\ Len(out) = Len(data)
        /\ \A j \in 1..Len(data) :
              /\ out[j] \in {0, 1}
              /\ out[j] = 1 => data[j] # 0 /\ Retained(data[j])
              /\ data[j] = 0 => out[j] = 0

\* the rules that accept the path
Accepting == {name \in DOMAIN flags : flags[name]}

\* C11 (as stated): for every path and both values of index_associated at
\* most one of the eleven category rules combined by is_bids returns True.
C11_MutuallyExclusive ==
    Returned("is_bids") => Cardinality(Accepting) <= 1

\* the rule named after the modality directory of the path ("" when the
\* path is not /sub-L/[ses-S/]<func or beh>/<filename>)
DirectoryRule(p) ==
    IF ModalityShape(Segs(p), "func") THEN "is_func"
    ELSE IF ModalityShape(Segs(p), "beh") THEN "is_behavioral"
    ELSE ""

\* C11 (amended): the category rules overlap only on continuous recordings:
\* when two rules accept the same path one of them is is_cont and the
\* other is the rule of the path's directory, is_func under func/ and
\* is_behavioral under beh/, and the file is a physio or stim file; every
\* other accepted path is accepted by exactly one rule.
C11_OverlapOnlyWithCont ==
    Returned("is_bids") /\ Cardinality(Accepting) > 1 =>
        /\ Accepting = {"is_cont", DirectoryRule(path)}
        /\ \E e \in {"_physio.tsv.gz", "_stim.tsv.gz", "_physio.json", "_stim.json"} :
              \* the dot of the patterns stands for any character
              LET fn == FileName(path)
              IN Len(fn) >= Len(e) /\
                 LitAt(e, fn, Len(fn) - Len(e) + 1)

\* is_bids has returned on a physio file under func/ that both is_func and
\* is_cont accept
C11_Witness ==
    /\ Returned("is_bids")
    /\ path = "/sub-01/func/sub-01_task-rest_physio.json"
    /\ Accepting = {"is_func", "is_cont"}
    /\ ret.value

\* the modifier keys in their fixed relative order; recording has no place
\* in that order
OrderedKeys == <<"acq", "rec", "dir", "run", "echo">>
ModifierKeys == {OrderedKeys[j] : j \in 1..Len(OrderedKeys)} \cup {"recording"}
Rank(key) ==
    IF key = "recording" THEN 0
    ELSE CHOOSE j \in 1..Len(OrderedKeys) : OrderedKeys[j] = key

\* the key of a filename token that is a modifier token, "" for any other
KeyOf(tok) ==
    IF \E key \in ModifierKeys : StartsWith(tok, key \o "-")
    THEN CHOOSE key \in ModifierKeys : StartsWith(tok, key \o "-")
    ELSE ""
ModifierPositions(toks) == {j \in 1..Len(toks) : KeyOf(toks[j]) # ""}

RepeatsModifier(toks) ==
    \E i, j \in ModifierPositions(toks) : i < j /\ KeyOf(toks[i]) = KeyOf(toks[j])
OutOfOrder(toks) ==
    \E i, j \in ModifierPositions(toks) :
        /\ i < j
        /\ Rank(KeyOf(toks[i])) > 0 /\ Rank(KeyOf(toks[j])) > 0
        /\ Rank(KeyOf(toks[i])) > Rank(KeyOf(toks[j]))

\* the pieces put together again with sep between them
RECURSIVE Join(_, _)
Join(pieces, sep) ==
    IF Len(pieces) = 0 THEN ""
    ELSE IF Len(pieces) = 1 THEN pieces[1]
    ELSE pieces[1] \o sep \o Join(Tail(pieces), sep)

\* toks without the tokens at the positions drop
RECURSIVE Without(_, _, _)
Without(toks, drop, j) ==
    IF j > Len(toks) THEN <<>>
    ELSE (IF j \in drop THEN <<>> ELSE <<toks[j]>>) \o Without(toks, drop, j + 1)

\* the path with the filename tokens at the positions drop left out
Omitting(p, drop) ==
    LET segs == Segs(p)
        toks == Split(LastOf(segs), "_")
    IN Join(SubSeq(segs, 1, Len(segs) - 1) \o <<Join(Without(toks, drop, 1), "_")>>, "/")

ModalityDirs == {"anat", "dwi", "fmap", "func", "beh"}
ModalityRule(mod) ==
    CASE mod = "anat" -> "is_anat"
      [] mod = "dwi" -> "is_dwi"
      [] mod = "fmap" -> "is_field_map"
      [] mod = "func" -> "is_func"
      [] mod = "beh" -> "is_behavioral"

\* C12: under /sub-L/[ses-S/]<anat, dwi, fmap, func or beh>/ a filename
\* that repeats a modifier token (acq, rec, dir, run, echo, recording) or
\* lists two modifiers against the order acq, rec, dir, run, echo is
\* rejected by the rule of the directory and by is_bids; and a path that a
\* rule accepts is still accepted by that rule after any subset of its
\* modifier tokens is left out.
C12_ModifiersOrderedUniqueOptional ==
    Returned("is_bids") =>
        \A mod \in ModalityDirs :
            ModalityShape(Segs(path), mod) =>
                LET toks == Split(FileName(path), "_")
                IN /\ RepeatsModifier(toks) \/ OutOfOrder(toks) =>
                        ~flags[ModalityRule(mod)] /\ ~ret.value
                   /\ \A name \in {ModalityRule(mod), "is_cont"} :
                        flags[name] =>
                            \A drop \in SUBSET ModifierPositions(toks) :
                                RuleValue(name, index_associated, Omitting(path, drop))

\* is_bids has rejected a diffusion file whose name has the run token twice
C12_Witness ==
    /\ Returned("is_bids")
    /\ path = "/sub-01/dwi/sub-01_run-1_run-1_dwi.nii.gz"
    /\ RepeatsModifier(Split(FileName(path), "_"))
    /\ ~flags["is_dwi"]
    /\ ~ret.value

\* C13: every path accepted by is_func_bold is also accepted by is_func,
\* and therefore by is_bids.
C13_FuncBoldRefinesFunc ==
    Returned("is_func_bold") /\ ret.value =>
        /\ is_func(path)
        /\ is_bids([name \in DOMAIN NoFlags |-> RuleValue(name, index_associated, path)])

====
